---- MODULE Spec2Model ----
(***************************************************************************)
(* Screen capture with backend fallback (libs/scrap/src/common/wayland.rs, *)
(* libs/scrap/src/wayland/drm.rs) and the virtual evdev input devices      *)
(* (src/server/evdev_input.rs).                                            *)
(***************************************************************************)
EXTENDS Integers, Sequences, FiniteSets, TLC

(***************************************************************************)
(* Bounds                                                                  *)
(***************************************************************************)
\* largest width of the virtual mouse's bounding box; requests range a little
\* beyond it on both sides
MaxCoord == 2
\* largest relative move requested, in either direction
MaxDelta == 1
\* longest text given to key_sequence
MaxText == 2
\* largest number of targets the compositor reports
MaxTargets == 2
\* geometry of a DrmCapturable, scaled down from the 1920 x 1080 placeholder
FbWidth == 2
FbHeight == 2
\* number of distinct screen contents of the framebuffer device
MaxSeed == 2
\* capture calls made on one Capturer
MaxFrames == 3

\* format: 0x34325241 (AR24), drm.rs:31
AR24 == 875713089

\* the override functions a caller may install with set_map_err
Mappers == {"custom"}

\* the threads that call set_map_err and map_err concurrently
NumThreads == 2

(***************************************************************************)
(* State                                                                   *)
(***************************************************************************)
VARIABLES
    MAP_ERR,      \* the RwLock<Option<fn>>: "None" or the installed mapper
    compositor,   \* what pipewire::get_capturables() yields: [ok, n]
    devices,      \* which device nodes can be opened: [card0, fb0]
    fbData,       \* the bytes readable from /dev/fb0
    allCall,      \* the last Display::all call: [called, attempts, log, result]
    newCall,      \* the last Capturer::new call: [called, display, result]
    capturer,     \* the live Capturer: [exists, display, recorder]
    nframes,      \* frame() calls made on the live Capturer
    allNone,      \* every one of them found the recorder without new data
    failedBefore, \* a frame() call before the last one returned Failure
    lastRec,      \* what the recorder returned to the last frame() call
    lastConv,     \* the conversion the recorder did in that call: [buffer, out, passes]
    lastOut,      \* what the last frame() call returned
    mouse,        \* the EvdevInputMouse: [exists, width, height, current_x, current_y]
    mouseCall,    \* the last call made on it: [op, a, b, before]
    mouseEmits,   \* the device.emit calls of that call, in order: [events, ok]
    keyboard,     \* the EvdevInputKeyboard: [exists]
    kbdNew,       \* the last EvdevInputKeyboard::new call: [called, ok]
    kbdCall,      \* the last call made on the keyboard: [op, key, text, ret]
    kbdEmits,     \* the device.emit calls of that call, in order: [events, ok]
    rwlock,       \* the RwLock around MAP_ERR: [writer, readers]
    threads       \* the threads using it: per thread [pc, text, f, seen, out]

captureVars == <<MAP_ERR, compositor, devices, fbData, allCall, newCall, capturer,
                 nframes, allNone, failedBefore, lastRec, lastConv, lastOut>>
mouseVars == <<mouse, mouseCall, mouseEmits>>
kbdVars == <<keyboard, kbdNew, kbdCall, kbdEmits>>
lockVars == <<rwlock, threads>>
vars == <<captureVars, mouseVars, kbdVars, lockVars>>

(***************************************************************************)
(* Bytes and buffers                                                       *)
(***************************************************************************)
\* 0-based indexing of a Vec<u8> / slice
At(s, k) == s[k + 1]

\* a buffer of n bytes whose content depends on the seed
Pattern(n, s) == [k \in 1..n |-> (s * 41 + k * (10 * s + 1)) % 256]

\* vec![0u8; size]
Zeros(n) == [k \in 1..n |-> 0]

(***************************************************************************)
(* Error mapping (wayland.rs:11-25)                                        *)
(***************************************************************************)
\* map_err: the installed override applied to the text, else
\* io::Error::new(io::ErrorKind::Other, text)
map_err(m, text) ==
    IF m # "None"
    THEN [ioKind |-> "Mapped", by |-> m, text |-> text]
    ELSE [ioKind |-> "Other", by |-> "default", text |-> text]

\* the io::Error slot of a result that is Ok
NoError == [ioKind |-> "", by |-> "", text |-> <<>>]

\* MAP_ERR.read(): blocks while a writer holds the lock, else thread t joins
\* the readers
RwLockRead(l, t) ==
    IF l.writer
    THEN [ok |-> FALSE, lock |-> l]
    ELSE [ok |-> TRUE, lock |-> [l EXCEPT !.readers = @ \cup {t}]]

\* a write lock that only other writers keep out
RwLockWrite_SharedWithReaders(l) ==
    IF l.writer
    THEN [ok |-> FALSE, lock |-> l]
    ELSE [ok |-> TRUE, lock |-> [l EXCEPT !.writer = TRUE]]

\* MAP_ERR.write(): blocks while a writer or any reader holds the lock
RwLockWrite(l) ==
    IF l.writer \/ l.readers # {}
    THEN [ok |-> FALSE, lock |-> l]
    ELSE [ok |-> TRUE, lock |-> [l EXCEPT !.writer = TRUE]]

(***************************************************************************)
(* Capture backends                                                        *)
(***************************************************************************)
\* the targets pipewire::get_capturables() returns when it reports n of them
PipeWireCapturables(n) ==
    [k \in 1..n |-> [type |-> "pipewire", path |-> ToString(k),
                     width |-> FbWidth, height |-> FbHeight, format |-> 0]]

\* pipewire::get_capturables(): Ok(targets) or Err(e)
get_capturables(pw) ==
    IF pw.ok
    THEN [ok |-> TRUE, val |-> PipeWireCapturables(pw.n), err |-> <<>>]
    ELSE [ok |-> FALSE, val |-> <<>>, err |-> <<"pipewire unavailable">>]

\* DrmCapturable::new(path): no device is opened, the result is always Ok
DrmCapturableNew(path) ==
    [ok |-> TRUE,
     val |-> [type |-> "drm", path |-> path,
              width |-> FbWidth, height |-> FbHeight, format |-> AR24],
     err |-> <<>>]

\* Capturable::name of a DrmCapturable: format!("DRM: {}", self.path)
DrmName(c) == <<"DRM: ", c.path>>

\* Display(Box<dyn Capturable>)
Display(c) == [cap |-> c]

\* Display::name: the name of the wrapped capturable
DisplayName(d) ==
    IF d.cap.type = "drm" THEN DrmName(d.cap) ELSE <<"PipeWire: ", d.cap.path>>

\* one attempted backend of Display::all with what it yielded
Attempt(backend, r) == [backend |-> backend, ok |-> r.ok, targets |-> r.val]
DrmAttempt(backend, r) ==
    [backend |-> backend, ok |-> r.ok, targets |-> IF r.ok THEN <<r.val>> ELSE <<>>]

OkDisplays(ds) == [kind |-> "Ok", displays |-> ds, err |-> NoError]
ErrDisplays(e) == [kind |-> "Failure", displays |-> <<>>, err |-> e]

\* Display::all without the is_empty test on the compositor's targets
DisplayAll_NoEmptyCheck(pw, m) ==
    LET pwr == get_capturables(pw)
        drm == DrmCapturableNew("/dev/dri/card0")
    IN  IF pwr.ok
        THEN [result   |-> OkDisplays([k \in DOMAIN pwr.val |-> Display(pwr.val[k])]),
              attempts |-> <<Attempt("pipewire", pwr)>>,
              log      |-> <<>>]
        ELSE [result   |-> OkDisplays(<<Display(drm.val)>>),
              attempts |-> <<Attempt("pipewire", pwr), DrmAttempt("/dev/dri/card0", drm)>>,
              log      |-> <<<<"PipeWire failed, trying DRM: ", pwr.err>>>>]

\* Display::all: the value returned, the backends attempted in order, and the
\* lines written to stderr
DisplayAll(pw, m) ==
    LET pwr == get_capturables(pw)
        a1  == <<Attempt("pipewire", pwr)>>
    IN  IF pwr.ok /\ pwr.val # <<>>
        THEN [result   |-> OkDisplays([k \in DOMAIN pwr.val |-> Display(pwr.val[k])]),
              attempts |-> a1,
              log      |-> <<>>]
        ELSE
        LET log1 == IF pwr.ok THEN <<>> ELSE <<<<"PipeWire failed, trying DRM: ", pwr.err>>>>
            drm  == DrmCapturableNew("/dev/dri/card0")
            a2   == Append(a1, DrmAttempt("/dev/dri/card0", drm))
        IN  IF drm.ok
            THEN [result   |-> OkDisplays(<<Display(drm.val)>>),
                  attempts |-> a2,
                  log      |-> log1]
            ELSE
            LET log2 == Append(log1, <<"DRM failed, trying framebuffer: ", drm.err>>)
                fb   == DrmCapturableNew("/dev/fb0")
                a3   == Append(a2, DrmAttempt("/dev/fb0", fb))
            IN  IF fb.ok
                THEN [result   |-> OkDisplays(<<Display(fb.val)>>),
                      attempts |-> a3,
                      log      |-> log2]
                ELSE [result   |-> ErrDisplays(
                                     map_err(m, <<"All capture methods failed: ">> \o fb.err)),
                      attempts |-> a3,
                      log      |-> log2]

(***************************************************************************)
(* Recorders (drm.rs:51-109)                                               *)
(***************************************************************************)
NoCapturable == [type |-> "", path |-> "", width |-> 0, height |-> 0, format |-> 0]
NoRecorder == [type |-> "", capturable |-> NoCapturable, file |-> "", pos |-> 0]

\* DrmRecorder::new: File::open("/dev/fb0") whatever the capturable's path
DrmRecorderNew(capturable, fb0) ==
    IF fb0
    THEN [ok |-> TRUE,
          val |-> [type |-> "drm", capturable |-> capturable,
                   file |-> "/dev/fb0", pos |-> 0],
          err |-> <<>>]
    ELSE [ok |-> FALSE, val |-> NoRecorder, err |-> <<"open /dev/fb0 failed">>]

\* the compositor backend's recorder factory, which may fail
PipeWireRecorderNew(capturable, pwOk) ==
    IF pwOk
    THEN [ok |-> TRUE,
          val |-> [type |-> "pipewire", capturable |-> capturable,
                   file |-> "", pos |-> 0],
          err |-> <<>>]
    ELSE [ok |-> FALSE, val |-> NoRecorder, err |-> <<"pipewire recorder failed">>]

\* Capturable::recorder of the display's backend
Recorder(capturable, fb0, pwOk) ==
    IF capturable.type = "drm"
    THEN DrmRecorderNew(capturable, fb0)
    ELSE PipeWireRecorderNew(capturable, pwOk)

\* PixelProvider, and the error a recorder may return instead
PixelProvider(kind, w, h, x) == [kind |-> kind, w |-> w, h |-> h, x |-> x, err |-> <<>>]
RecorderErr(e) == [kind |-> "Err", w |-> 0, h |-> 0, x |-> <<>>, err |-> e]

\* Read::read_exact on the open file: the next n bytes from the file position,
\* or UnexpectedEof with the position left at the end of the file
read_exact(data, pos, n) ==
    IF Len(data) - pos >= n
    THEN [ok |-> TRUE, buffer |-> SubSeq(data, pos + 1, pos + n), pos |-> pos + n]
    ELSE [ok |-> FALSE, buffer |-> <<>>,
          pos |-> IF pos > Len(data) THEN pos ELSE Len(data)]

\* the loop body copying the four bytes of pixel (i, j) in place
ConvertPixel_NoSwap(acc, buffer, width, i, j) ==
    LET src_idx == (i * width + j) * 4
        dst_idx == src_idx
    IN  [out    |-> [acc.out EXCEPT ![dst_idx + 1] = At(buffer, src_idx),
                                    ![dst_idx + 2] = At(buffer, src_idx + 1),
                                    ![dst_idx + 3] = At(buffer, src_idx + 2),
                                    ![dst_idx + 4] = 0],
         passes |-> [acc.passes EXCEPT ![i * width + j + 1] = @ + 1]]

\* the body of the conversion loop for pixel (i, j)
ConvertPixel(acc, buffer, width, i, j) ==
    LET src_idx == (i * width + j) * 4
        dst_idx == src_idx
    IN  [out    |-> [acc.out EXCEPT ![dst_idx + 1] = At(buffer, src_idx + 2),
                                    ![dst_idx + 2] = At(buffer, src_idx + 1),
                                    ![dst_idx + 3] = At(buffer, src_idx),
                                    ![dst_idx + 4] = 0],
         passes |-> [acc.passes EXCEPT ![i * width + j + 1] = @ + 1]]

\* for i in 0..height { for j in 0..width { ... } }
RECURSIVE ConvertLoop(_, _, _, _, _, _)
ConvertLoop(acc, buffer, width, height, i, j) ==
    IF i >= height THEN acc
    ELSE IF j >= width THEN ConvertLoop(acc, buffer, width, height, i + 1, 0)
    ELSE ConvertLoop(ConvertPixel(acc, buffer, width, i, j),
                     buffer, width, height, i, j + 1)

\* the ARGB to BGR0 conversion of DrmRecorder::capture: the converted buffer
\* and how many times each pixel was converted
Convert(buffer, width, height) ==
    ConvertLoop([out |-> Zeros(width * height * 4), passes |-> Zeros(width * height)],
                buffer, width, height, 0, 0)

NoConv == [buffer |-> <<>>, out |-> <<>>, passes |-> <<>>]

\* DrmRecorder::capture: what is returned and the file position afterwards.
\* The slice handed out borrows the local bgr0_buffer; it is modelled by the
\* bytes that buffer holds when the function returns.
DrmRecorderCapture(rec, data) ==
    LET width  == rec.capturable.width
        height == rec.capturable.height
        size   == width * height * 4
        rd     == read_exact(data, rec.pos, size)
        cv     == Convert(rd.buffer, width, height)
    IN  IF rd.ok
        THEN [res  |-> PixelProvider("BGR0", width, height, cv.out),
              pos  |-> rd.pos,
              conv |-> [buffer |-> rd.buffer, out |-> cv.out, passes |-> cv.passes]]
        ELSE [res  |-> RecorderErr(<<"failed to fill whole buffer">>),
              pos  |-> rd.pos,
              conv |-> NoConv]

\* what the compositor backend's recorder may return from capture
PipeWireResults ==
    { PixelProvider(k, d[1], d[2], Pattern(n, 1)) :
        k \in {"BGR0", "RGB0"},
        d \in {<<1, 1>>, <<FbWidth, FbHeight>>},
        n \in {3, 4, FbWidth * FbHeight * 4} }
    \cup { PixelProvider("NONE", 0, 0, <<>>),
           PixelProvider("RGB", 1, 1, Pattern(3, 1)),
           RecorderErr(<<"pipewire stream error">>) }

(***************************************************************************)
(* Capturer (wayland.rs:27-61)                                             *)
(***************************************************************************)
NoDisplay == Display(NoCapturable)
NoCapturerValue == [display |-> NoDisplay, recorder |-> NoRecorder, buf |-> <<>>]
NoFrame == [pixfmt |-> "", w |-> 0, h |-> 0, data |-> <<>>]

\* Capturer::new
CapturerNew(display, m, fb0, pwOk) ==
    LET r == Recorder(display.cap, fb0, pwOk)
    IN  IF r.ok
        THEN [ok |-> TRUE,
              val |-> [display |-> display, recorder |-> r.val, buf |-> <<>>],
              err |-> NoError]
        ELSE [ok |-> FALSE, val |-> NoCapturerValue, err |-> map_err(m, r.err)]

\* PixelBuffer::new(x, pixfmt, w, h)
PixelBuffer(x, pixfmt, w, h) == [pixfmt |-> pixfmt, w |-> w, h |-> h, data |-> x]

\* std::io::ErrorKind::WouldBlock.into()
WouldBlock == [ioKind |-> "WouldBlock", by |-> "", text |-> <<>>]

\* Capturer::frame treating NONE as one more error to map
Frame_NoneMapped(r, m) ==
    IF r.kind = "Err"
    THEN [ok |-> FALSE, frame |-> NoFrame, err |-> map_err(m, r.err)]
    ELSE IF r.kind = "BGR0"
    THEN [ok |-> TRUE, frame |-> PixelBuffer(r.x, "BGRA", r.w, r.h), err |-> NoError]
    ELSE IF r.kind = "RGB0"
    THEN [ok |-> TRUE, frame |-> PixelBuffer(r.x, "RGBA", r.w, r.h), err |-> NoError]
    ELSE [ok |-> FALSE, frame |-> NoFrame, err |-> map_err(m, <<"Invalid data">>)]

\* Capturer::frame with the two pixel format tags exchanged
Frame_FormatsSwapped(r, m) ==
    IF r.kind = "Err"
    THEN [ok |-> FALSE, frame |-> NoFrame, err |-> map_err(m, r.err)]
    ELSE IF r.kind = "BGR0"
    THEN [ok |-> TRUE, frame |-> PixelBuffer(r.x, "RGBA", r.w, r.h), err |-> NoError]
    ELSE IF r.kind = "RGB0"
    THEN [ok |-> TRUE, frame |-> PixelBuffer(r.x, "BGRA", r.w, r.h), err |-> NoError]
    ELSE IF r.kind = "NONE"
    THEN [ok |-> FALSE, frame |-> NoFrame, err |-> WouldBlock]
    ELSE [ok |-> FALSE, frame |-> NoFrame, err |-> map_err(m, <<"Invalid data">>)]

\* Capturer::frame, given what self.1.capture() returned
Frame(r, m) ==
    IF r.kind = "Err"
    THEN [ok |-> FALSE, frame |-> NoFrame, err |-> map_err(m, r.err)]
    ELSE IF r.kind = "BGR0"
    THEN [ok |-> TRUE, frame |-> PixelBuffer(r.x, "BGRA", r.w, r.h), err |-> NoError]
    ELSE IF r.kind = "RGB0"
    THEN [ok |-> TRUE, frame |-> PixelBuffer(r.x, "RGBA", r.w, r.h), err |-> NoError]
    ELSE IF r.kind = "NONE"
    THEN [ok |-> FALSE, frame |-> NoFrame, err |-> WouldBlock]
    ELSE [ok |-> FALSE, frame |-> NoFrame, err |-> map_err(m, <<"Invalid data">>)]

\* the three outcome classes a caller of frame() tells apart
Outcome(o) ==
    IF o.ok THEN "Frame"
    ELSE IF o.err.ioKind = "WouldBlock" THEN "WouldBlock"
    ELSE "Failure"

(***************************************************************************)
(* Virtual mouse (evdev_input.rs:179-299)                                  *)
(***************************************************************************)
NoMouse == [exists |-> FALSE, width |-> 0, height |-> 0, current_x |-> 0, current_y |-> 0]
NoMouseCall == [op |-> "", a |-> 0, b |-> 0, button |-> "", before |-> NoMouse]

\* EvdevInputMouse::new(width, height): the pointer starts at the centre
EvdevInputMouseNew(width, height) ==
    [exists |-> TRUE, width |-> width, height |-> height,
     current_x |-> width \div 2, current_y |-> height \div 2]

\* InputEvent::new(type, code, value)
InputEvent(type, code, value) == [type |-> type, code |-> code, value |-> value]
SynEvent == InputEvent("SYN", "0", 0)

\* one self.device.emit(&[...]) call and whether the kernel took the write
Emit(events, ok) == [events |-> events, ok |-> ok]

\* i32::clamp
clamp(v, lo, hi) == IF v < lo THEN lo ELSE IF v > hi THEN hi ELSE v

\* mouse_move_to that keeps the tracked position inside the bounding box
mouse_move_to_Clamped(self, x, y, oks) ==
    LET dx == x - self.current_x
        dy == y - self.current_y
    IN  IF dx # 0 \/ dy # 0
        THEN [self  |-> [self EXCEPT !.current_x = clamp(x, 0, self.width),
                                     !.current_y = clamp(y, 0, self.height)],
              emits |-> <<Emit(<<InputEvent("RELATIVE", "REL_X", dx),
                                 InputEvent("RELATIVE", "REL_Y", dy)>>, oks[1]),
                          Emit(<<SynEvent>>, oks[2])>>]
        ELSE [self |-> self, emits |-> <<>>]

\* mouse_move_to: the device afterwards and the emit calls made
mouse_move_to(self, x, y, oks) ==
    LET dx == x - self.current_x
        dy == y - self.current_y
    IN  IF dx # 0 \/ dy # 0
        THEN [self  |-> [self EXCEPT !.current_x = x, !.current_y = y],
              emits |-> <<Emit(<<InputEvent("RELATIVE", "REL_X", dx),
                                 InputEvent("RELATIVE", "REL_Y", dy)>>, oks[1]),
                          Emit(<<SynEvent>>, oks[2])>>]
        ELSE [self |-> self, emits |-> <<>>]

\* mouse_move_relative that lets the tracked position leave the bounding box
mouse_move_relative_Unclamped(self, dx, dy, oks) ==
    IF dx # 0 \/ dy # 0
    THEN [self  |-> [self EXCEPT !.current_x = self.current_x + dx,
                                 !.current_y = self.current_y + dy],
          emits |-> <<Emit(<<InputEvent("RELATIVE", "REL_X", dx),
                             InputEvent("RELATIVE", "REL_Y", dy)>>, oks[1]),
                      Emit(<<SynEvent>>, oks[2])>>]
    ELSE [self |-> self, emits |-> <<>>]

\* mouse_move_relative: the device afterwards and the emit calls made
mouse_move_relative(self, dx, dy, oks) ==
    IF dx # 0 \/ dy # 0
    THEN [self  |-> [self EXCEPT !.current_x = clamp(self.current_x + dx, 0, self.width),
                                 !.current_y = clamp(self.current_y + dy, 0, self.height)],
          emits |-> <<Emit(<<InputEvent("RELATIVE", "REL_X", dx),
                             InputEvent("RELATIVE", "REL_Y", dy)>>, oks[1]),
                      Emit(<<SynEvent>>, oks[2])>>]
    ELSE [self |-> self, emits |-> <<>>]

\* map_enigo_button_to_evdev: Some(code) or None
map_enigo_button_to_evdev(button) ==
    CASE button = "Left"    -> [some |-> TRUE, code |-> "BTN_LEFT"]
      [] button = "Right"   -> [some |-> TRUE, code |-> "BTN_RIGHT"]
      [] button = "Middle"  -> [some |-> TRUE, code |-> "BTN_MIDDLE"]
      [] button = "Back"    -> [some |-> TRUE, code |-> "BTN_SIDE"]
      [] button = "Forward" -> [some |-> TRUE, code |-> "BTN_EXTRA"]
      [] OTHER              -> [some |-> FALSE, code |-> ""]

\* mouse_down: the device afterwards and the emit calls made
mouse_down(self, button, oks) ==
    LET evdev_key == map_enigo_button_to_evdev(button)
    IN  IF evdev_key.some
        THEN [self  |-> self,
              emits |-> <<Emit(<<InputEvent("KEY", evdev_key.code, 1)>>, oks[1]),
                          Emit(<<SynEvent>>, oks[2])>>]
        ELSE [self |-> self, emits |-> <<>>]

\* mouse_up: the device afterwards and the emit calls made
mouse_up(self, button, oks) ==
    LET evdev_key == map_enigo_button_to_evdev(button)
    IN  IF evdev_key.some
        THEN [self  |-> self,
              emits |-> <<Emit(<<InputEvent("KEY", evdev_key.code, 0)>>, oks[1]),
                          Emit(<<SynEvent>>, oks[2])>>]
        ELSE [self |-> self, emits |-> <<>>]

\* mouse_click: mouse_down, a 10 ms sleep, mouse_up; oks[1..2] are the
\* results of the first call's writes, oks[3..4] those of the second's
mouse_click(self, button, oks) ==
    LET d == mouse_down(self, button, <<oks[1], oks[2]>>)
        u == mouse_up(d.self, button, <<oks[3], oks[4]>>)
    IN  [self |-> u.self, emits |-> d.emits \o u.emits]

\* mouse_scroll_x writing the scroll event and the synchronization event in
\* one batch
mouse_scroll_x_Merged(self, delta, oks) ==
    [self  |-> self,
     emits |-> <<Emit(<<InputEvent("RELATIVE", "REL_HWHEEL", delta), SynEvent>>, oks[1])>>]

\* mouse_scroll_x: the device afterwards and the emit calls made
mouse_scroll_x(self, delta, oks) ==
    [self  |-> self,
     emits |-> <<Emit(<<InputEvent("RELATIVE", "REL_HWHEEL", delta)>>, oks[1]),
                 Emit(<<SynEvent>>, oks[2])>>]

\* mouse_scroll_y that also shifts the tracked vertical position
mouse_scroll_y_Moves(self, delta, oks) ==
    [self  |-> [self EXCEPT !.current_y = self.current_y + delta],
     emits |-> <<Emit(<<InputEvent("RELATIVE", "REL_WHEEL", delta)>>, oks[1]),
                 Emit(<<SynEvent>>, oks[2])>>]

\* mouse_scroll_y: the device afterwards and the emit calls made
mouse_scroll_y(self, delta, oks) ==
    [self  |-> self,
     emits |-> <<Emit(<<InputEvent("RELATIVE", "REL_WHEEL", delta)>>, oks[1]),
                 Emit(<<SynEvent>>, oks[2])>>]

(***************************************************************************)
(* Virtual keyboard (evdev_input.rs:12-177)                                *)
(***************************************************************************)
\* enigo::Key: Key::Layout(c), or a named key
Layout(c) == [kind |-> "Layout", c |-> c]
Named(n) == [kind |-> n, c |-> ""]
NoKey == [kind |-> "", c |-> ""]
NoKbdCall == [op |-> "", key |-> NoKey, text |-> <<>>, ret |-> ""]

\* the Key::Layout arms of map_enigo_key_to_evdev
LayoutTable ==
    "a" :> "KEY_A" @@ "b" :> "KEY_B" @@ "c" :> "KEY_C" @@
    "d" :> "KEY_D" @@ "e" :> "KEY_E" @@ "f" :> "KEY_F" @@
    "g" :> "KEY_G" @@ "h" :> "KEY_H" @@ "i" :> "KEY_I" @@
    "j" :> "KEY_J" @@ "k" :> "KEY_K" @@ "l" :> "KEY_L" @@
    "m" :> "KEY_M" @@ "n" :> "KEY_N" @@ "o" :> "KEY_O" @@
    "p" :> "KEY_P" @@ "q" :> "KEY_Q" @@ "r" :> "KEY_R" @@
    "s" :> "KEY_S" @@ "t" :> "KEY_T" @@ "u" :> "KEY_U" @@
    "v" :> "KEY_V" @@ "w" :> "KEY_W" @@ "x" :> "KEY_X" @@
    "y" :> "KEY_Y" @@ "z" :> "KEY_Z" @@ "0" :> "KEY_0" @@
    "1" :> "KEY_1" @@ "2" :> "KEY_2" @@ "3" :> "KEY_3" @@
    "4" :> "KEY_4" @@ "5" :> "KEY_5" @@ "6" :> "KEY_6" @@
    "7" :> "KEY_7" @@ "8" :> "KEY_8" @@ "9" :> "KEY_9"

\* its arms for named keys
NamedTable ==
    "Space" :> "KEY_SPACE" @@ "Return" :> "KEY_ENTER" @@ "Backspace" :> "KEY_BACKSPACE" @@
    "Tab" :> "KEY_TAB" @@ "Escape" :> "KEY_ESC" @@ "LeftShift" :> "KEY_LEFTSHIFT" @@
    "RightShift" :> "KEY_RIGHTSHIFT" @@ "LeftControl" :> "KEY_LEFTCTRL" @@ "RightControl" :> "KEY_RIGHTCTRL" @@
    "LeftAlt" :> "KEY_LEFTALT" @@ "RightAlt" :> "KEY_RIGHTALT" @@ "LeftMeta" :> "KEY_LEFTMETA" @@
    "RightMeta" :> "KEY_RIGHTMETA" @@ "CapsLock" :> "KEY_CAPSLOCK" @@ "F1" :> "KEY_F1" @@
    "F2" :> "KEY_F2" @@ "F3" :> "KEY_F3" @@ "F4" :> "KEY_F4" @@
    "F5" :> "KEY_F5" @@ "F6" :> "KEY_F6" @@ "F7" :> "KEY_F7" @@
    "F8" :> "KEY_F8" @@ "F9" :> "KEY_F9" @@ "F10" :> "KEY_F10" @@
    "F11" :> "KEY_F11" @@ "F12" :> "KEY_F12" @@ "Delete" :> "KEY_DELETE" @@
    "Home" :> "KEY_HOME" @@ "End" :> "KEY_END" @@ "PageUp" :> "KEY_PAGEUP" @@
    "PageDown" :> "KEY_PAGEDOWN" @@ "UpArrow" :> "KEY_UP" @@ "DownArrow" :> "KEY_DOWN" @@
    "LeftArrow" :> "KEY_LEFT" @@ "RightArrow" :> "KEY_RIGHT"

\* map_enigo_key_to_evdev with Some(KEY_SPACE) in its last arm instead of None
map_enigo_key_to_evdev_NoNone(key) ==
    IF key.kind = "Layout" /\ key.c \in DOMAIN LayoutTable
    THEN [some |-> TRUE, code |-> LayoutTable[key.c]]
    ELSE IF key.kind \in DOMAIN NamedTable
    THEN [some |-> TRUE, code |-> NamedTable[key.kind]]
    ELSE [some |-> TRUE, code |-> "KEY_SPACE"]

\* map_enigo_key_to_evdev: Some(code) or None
map_enigo_key_to_evdev(key) ==
    IF key.kind = "Layout" /\ key.c \in DOMAIN LayoutTable
    THEN [some |-> TRUE, code |-> LayoutTable[key.c]]
    ELSE IF key.kind \in DOMAIN NamedTable
    THEN [some |-> TRUE, code |-> NamedTable[key.kind]]
    ELSE [some |-> FALSE, code |-> ""]

\* EvdevInputKeyboard::new: Err when the virtual device cannot be built
EvdevInputKeyboardNew(created) ==
    IF created
    THEN [ok |-> TRUE, val |-> [exists |-> TRUE]]
    ELSE [ok |-> FALSE, val |-> [exists |-> FALSE]]

\* key_down dropping the results of its writes
key_down_Swallow(key, oks) ==
    LET evdev_key == map_enigo_key_to_evdev(key)
        press     == <<InputEvent("KEY", evdev_key.code, 1)>>
    IN  IF evdev_key.some
        THEN [ret |-> "Ok", emits |-> <<Emit(press, oks[1]), Emit(<<SynEvent>>, oks[2])>>]
        ELSE [ret |-> "Ok", emits |-> <<>>]

\* key_down: Ok(()) or the error of the first rejected write, and the emit
\* calls made
key_down(key, oks) ==
    LET evdev_key == map_enigo_key_to_evdev(key)
        press     == <<InputEvent("KEY", evdev_key.code, 1)>>
    IN  IF evdev_key.some
        THEN IF ~oks[1]
             THEN [ret |-> "Err", emits |-> <<Emit(press, FALSE)>>]
             ELSE IF ~oks[2]
             THEN [ret |-> "Err", emits |-> <<Emit(press, TRUE), Emit(<<SynEvent>>, FALSE)>>]
             ELSE [ret |-> "Ok", emits |-> <<Emit(press, TRUE), Emit(<<SynEvent>>, TRUE)>>]
        ELSE [ret |-> "Ok", emits |-> <<>>]

\* key_up writing the synchronization event before the key event
key_up_SynFirst(key, oks) ==
    LET evdev_key == map_enigo_key_to_evdev(key)
    IN  IF evdev_key.some
        THEN [ret |-> "unit",
              emits |-> <<Emit(<<SynEvent>>, oks[1]),
                          Emit(<<InputEvent("KEY", evdev_key.code, 0)>>, oks[2])>>]
        ELSE [ret |-> "unit", emits |-> <<>>]

\* key_up: returns nothing; the emit calls made
key_up(key, oks) ==
    LET evdev_key == map_enigo_key_to_evdev(key)
    IN  IF evdev_key.some
        THEN [ret |-> "unit",
              emits |-> <<Emit(<<InputEvent("KEY", evdev_key.code, 0)>>, oks[1]),
                          Emit(<<SynEvent>>, oks[2])>>]
        ELSE [ret |-> "unit", emits |-> <<>>]

\* key_click giving up when key_down fails
key_click_Abort(key, oks) ==
    LET d == key_down(key, <<oks[1], oks[2]>>)
        u == key_up(key, <<oks[3], oks[4]>>)
    IN  IF d.ret = "Err"
        THEN [ret |-> "unit", emits |-> d.emits]
        ELSE [ret |-> "unit", emits |-> d.emits \o u.emits]

\* key_click: key_down with its result dropped, a 10 ms sleep, key_up
key_click(key, oks) ==
    LET d == key_down(key, <<oks[1], oks[2]>>)
        u == key_up(key, <<oks[3], oks[4]>>)
    IN  [ret |-> "unit", emits |-> d.emits \o u.emits]

\* key_sequence typing the characters of s from the last to the first
RECURSIVE key_sequence_from_Reversed(_, _, _)
key_sequence_from_Reversed(s, j, oks) ==
    IF j > Len(s) THEN <<>>
    ELSE LET key == Layout(s[j])
             d   == key_down(key, <<oks[4 * (j - 1) + 1], oks[4 * (j - 1) + 2]>>)
             u   == key_up(key, <<oks[4 * (j - 1) + 3], oks[4 * (j - 1) + 4]>>)
         IN  key_sequence_from_Reversed(s, j + 1, oks) \o d.emits \o u.emits

\* key_sequence from character j of s on: the writes of character j are
\* numbered 4(j-1)+1 .. 4j
RECURSIVE key_sequence_from(_, _, _)
key_sequence_from(s, j, oks) ==
    IF j > Len(s) THEN <<>>
    ELSE LET key == Layout(s[j])
             d   == key_down(key, <<oks[4 * (j - 1) + 1], oks[4 * (j - 1) + 2]>>)
             u   == key_up(key, <<oks[4 * (j - 1) + 3], oks[4 * (j - 1) + 4]>>)
         IN  d.emits \o u.emits \o key_sequence_from(s, j + 1, oks)

\* key_sequence: for c in s.chars() { key_down; sleep; key_up }
key_sequence(s, oks) ==
    [ret |-> "unit", emits |-> key_sequence_from(s, 1, oks)]

(***************************************************************************)
(* The capture state machine                                               *)
(***************************************************************************)
\* bytes of one full frame of a DrmCapturable
FrameSize == FbWidth * FbHeight * 4

\* what /dev/fb0 may hold: less than a frame, one frame, two frames
FbContents ==
    { Pattern(n, s) : n \in {FrameSize - 1, FrameSize, 2 * FrameSize}, s \in 1..MaxSeed }

NoCall == [called |-> FALSE, attempts |-> <<>>, log |-> <<>>,
           result |-> [kind |-> "None", displays |-> <<>>, err |-> NoError]]
NoNew == [called |-> FALSE, display |-> NoDisplay, m |-> "None", recorderOk |-> FALSE,
          ok |-> FALSE, err |-> NoError]
NoCapturer == [exists |-> FALSE, val |-> NoCapturerValue]
NoRec == PixelProvider("", 0, 0, <<>>)
NoOut == [ok |-> FALSE, frame |-> NoFrame, err |-> NoError]

\* nothing has been called yet
CaptureIdle ==
    /\ MAP_ERR = "None"
    /\ allCall = NoCall
    /\ newCall = NoNew
    /\ capturer = NoCapturer
    /\ nframes = 0
    /\ allNone = TRUE
    /\ failedBefore = FALSE
    /\ lastRec = NoRec
    /\ lastConv = NoConv
    /\ lastOut = NoOut

\* no virtual mouse has been created
MouseIdle ==
    /\ mouse = NoMouse
    /\ mouseCall = NoMouseCall
    /\ mouseEmits = <<>>

\* no virtual keyboard has been created
KbdIdle ==
    /\ keyboard = [exists |-> FALSE]
    /\ kbdNew = [called |-> FALSE, ok |-> FALSE]
    /\ kbdCall = NoKbdCall
    /\ kbdEmits = <<>>

\* the lock is free and no thread is using it
LockIdle ==
    /\ rwlock = [writer |-> FALSE, readers |-> {}]
    /\ threads = <<>>

Init ==
    /\ compositor \in {[ok |-> FALSE, n |-> 0]} \cup {[ok |-> TRUE, n |-> k] : k \in 0..MaxTargets}
    /\ devices \in [card0 : BOOLEAN, fb0 : BOOLEAN]
    /\ fbData \in IF devices.fb0 THEN FbContents ELSE {<<>>}
    /\ CaptureIdle
    /\ MouseIdle
    /\ KbdIdle
    /\ LockIdle

\* set_map_err(f)
SetMapErr(f) ==
    /\ MAP_ERR' = f
    /\ UNCHANGED <<compositor, devices, fbData, allCall, newCall, capturer,
                   nframes, allNone, failedBefore, lastRec, lastConv, lastOut>>
    /\ UNCHANGED <<mouseVars, kbdVars, lockVars>>

\* a call of Display::all
DisplayAllCall ==
    /\ LET r == DisplayAll(compositor, MAP_ERR)
       IN  allCall' = [called |-> TRUE, attempts |-> r.attempts, log |-> r.log,
                       result |-> r.result]
    /\ UNCHANGED <<MAP_ERR, compositor, devices, fbData, newCall, capturer,
                   nframes, allNone, failedBefore, lastRec, lastConv, lastOut>>
    /\ UNCHANGED <<mouseVars, kbdVars, lockVars>>

\* a call of Capturer::new on one of the enumerated displays
CapturerNewCall ==
    /\ allCall.result.kind = "Ok"
    /\ \E k \in DOMAIN allCall.result.displays, pwOk \in BOOLEAN :
          LET display == allCall.result.displays[k]
              r       == CapturerNew(display, MAP_ERR, devices.fb0, pwOk)
          IN  /\ newCall' = [called |-> TRUE, display |-> display, m |-> MAP_ERR,
                             recorderOk |-> Recorder(display.cap, devices.fb0, pwOk).ok,
                             ok |-> r.ok, err |-> r.err]
              /\ capturer' = [exists |-> r.ok, val |-> r.val]
    /\ nframes' = 0
    /\ allNone' = TRUE
    /\ failedBefore' = FALSE
    /\ lastRec' = NoRec
    /\ lastConv' = NoConv
    /\ lastOut' = NoOut
    /\ UNCHANGED <<MAP_ERR, compositor, devices, fbData, allCall>>
    /\ UNCHANGED <<mouseVars, kbdVars, lockVars>>

\* what self.1.capture() can return to a frame() call, with the recorder's
\* file position afterwards
Captures ==
    IF capturer.val.recorder.type = "drm"
    THEN {DrmRecorderCapture(capturer.val.recorder, fbData)}
    ELSE {[res |-> r, pos |-> 0, conv |-> NoConv] : r \in PipeWireResults}

\* a call of Capturer::frame on the live Capturer
CapturerFrame ==
    /\ capturer.exists
    /\ nframes < MaxFrames
    /\ \E c \in Captures :
          /\ lastRec' = c.res
          /\ lastConv' = c.conv
          /\ capturer' = [capturer EXCEPT !.val.recorder.pos = c.pos]
          /\ lastOut' = Frame(c.res, MAP_ERR)
          /\ allNone' = (allNone /\ c.res.kind = "NONE")
    /\ nframes' = nframes + 1
    /\ failedBefore' = (failedBefore \/ (nframes >= 1 /\ Outcome(lastOut) = "Failure"))
    /\ UNCHANGED <<MAP_ERR, compositor, devices, fbData, allCall, newCall>>
    /\ UNCHANGED <<mouseVars, kbdVars, lockVars>>

\* the screen changes: /dev/fb0 holds other bytes, as many as before
FbWrite(s) ==
    /\ devices.fb0
    /\ fbData # Pattern(Len(fbData), s)
    /\ fbData' = Pattern(Len(fbData), s)
    /\ UNCHANGED <<MAP_ERR, compositor, devices, allCall, newCall, capturer,
                   nframes, allNone, failedBefore, lastRec, lastConv, lastOut>>
    /\ UNCHANGED <<mouseVars, kbdVars, lockVars>>

Next ==
    \/ \E f \in Mappers : SetMapErr(f)
    \/ DisplayAllCall
    \/ CapturerNewCall
    \/ CapturerFrame
    \/ \E s \in 1..MaxSeed : FbWrite(s)

Spec == Init /\ [][Next]_vars

(***************************************************************************)
(* The virtual mouse state machine                                         *)
(***************************************************************************)
\* the bounding boxes a mouse is created with
MouseSizes == {<<MaxCoord, MaxCoord - 1>>, <<2, 2>>}
\* the absolute coordinates requested
Coords == (0 - 1)..(MaxCoord + 1)
\* the relative moves requested
Deltas == (0 - MaxDelta)..MaxDelta
\* whether the kernel takes each of the two writes of a call
EmitResults == [1..2 -> BOOLEAN]

InitMouse ==
    /\ compositor = [ok |-> FALSE, n |-> 0]
    /\ devices = [card0 |-> FALSE, fb0 |-> FALSE]
    /\ fbData = <<>>
    /\ CaptureIdle
    /\ mouse \in {EvdevInputMouseNew(wh[1], wh[2]) : wh \in MouseSizes}
    /\ mouseCall = NoMouseCall
    /\ mouseEmits = <<>>
    /\ KbdIdle
    /\ LockIdle

\* a call of mouse_move_to(x, y)
MouseMoveTo(x, y) ==
    /\ mouse.exists
    /\ \E oks \in EmitResults :
          LET r == mouse_move_to(mouse, x, y, oks)
          IN  /\ mouse' = r.self
              /\ mouseEmits' = r.emits
    /\ mouseCall' = [op |-> "move_to", a |-> x, b |-> y, button |-> "", before |-> mouse]
    /\ UNCHANGED <<captureVars, kbdVars, lockVars>>

\* a call of mouse_move_relative(dx, dy)
MouseMoveRelative(dx, dy) ==
    /\ mouse.exists
    /\ \E oks \in EmitResults :
          LET r == mouse_move_relative(mouse, dx, dy, oks)
          IN  /\ mouse' = r.self
              /\ mouseEmits' = r.emits
    /\ mouseCall' = [op |-> "move_relative", a |-> dx, b |-> dy, button |-> "",
                     before |-> mouse]
    /\ UNCHANGED <<captureVars, kbdVars, lockVars>>

\* the abstract buttons requested: the five mapped ones and one of the others
Buttons == {"Left", "Right", "Middle", "Back", "Forward", "ScrollUp"}
\* whether the kernel takes each of the four writes of a click
ClickResults == [1..4 -> BOOLEAN]

\* a call of mouse_down(button)
MouseDown(button) ==
    /\ mouse.exists
    /\ \E oks \in EmitResults :
          LET r == mouse_down(mouse, button, oks)
          IN  /\ mouse' = r.self
              /\ mouseEmits' = r.emits
    /\ mouseCall' = [op |-> "down", a |-> 0, b |-> 0, button |-> button, before |-> mouse]
    /\ UNCHANGED <<captureVars, kbdVars, lockVars>>

\* a call of mouse_up(button)
MouseUp(button) ==
    /\ mouse.exists
    /\ \E oks \in EmitResults :
          LET r == mouse_up(mouse, button, oks)
          IN  /\ mouse' = r.self
              /\ mouseEmits' = r.emits
    /\ mouseCall' = [op |-> "up", a |-> 0, b |-> 0, button |-> button, before |-> mouse]
    /\ UNCHANGED <<captureVars, kbdVars, lockVars>>

\* a call of mouse_click(button)
MouseClick(button) ==
    /\ mouse.exists
    /\ \E oks \in ClickResults :
          LET r == mouse_click(mouse, button, oks)
          IN  /\ mouse' = r.self
              /\ mouseEmits' = r.emits
    /\ mouseCall' = [op |-> "click", a |-> 0, b |-> 0, button |-> button, before |-> mouse]
    /\ UNCHANGED <<captureVars, kbdVars, lockVars>>

\* a call of mouse_scroll_x(delta)
MouseScrollX(delta) ==
    /\ mouse.exists
    /\ \E oks \in EmitResults :
          LET r == mouse_scroll_x(mouse, delta, oks)
          IN  /\ mouse' = r.self
              /\ mouseEmits' = r.emits
    /\ mouseCall' = [op |-> "scroll_x", a |-> delta, b |-> 0, button |-> "", before |-> mouse]
    /\ UNCHANGED <<captureVars, kbdVars, lockVars>>

\* a call of mouse_scroll_y(delta)
MouseScrollY(delta) ==
    /\ mouse.exists
    /\ \E oks \in EmitResults :
          LET r == mouse_scroll_y(mouse, delta, oks)
          IN  /\ mouse' = r.self
              /\ mouseEmits' = r.emits
    /\ mouseCall' = [op |-> "scroll_y", a |-> delta, b |-> 0, button |-> "", before |-> mouse]
    /\ UNCHANGED <<captureVars, kbdVars, lockVars>>

NextMouse ==
    \/ \E x \in Coords, y \in Coords : MouseMoveTo(x, y)
    \/ \E dx \in Deltas, dy \in Deltas : MouseMoveRelative(dx, dy)
    \/ \E button \in Buttons : MouseDown(button)
    \/ \E button \in Buttons : MouseUp(button)
    \/ \E button \in Buttons : MouseClick(button)
    \/ \E delta \in Deltas : MouseScrollX(delta)
    \/ \E delta \in Deltas : MouseScrollY(delta)

SpecMouse == InitMouse /\ [][NextMouse]_vars

(***************************************************************************)
(* The virtual keyboard state machine                                      *)
(***************************************************************************)
\* the keys requested: mapped letters and named keys, and keys the table lacks
Keys == {Layout("a"), Layout("b"), Named("LeftShift"), Layout("A"), Named("Insert")}
\* the characters of the texts typed: two mapped ones and an unmapped one
Chars == {"a", "b", "A"}
Texts == UNION {[1..n -> Chars] : n \in 0..MaxText}

\* whether the kernel takes each of the n writes a call can make: it rejects
\* none of them or a run of consecutive ones
WriteResults(n) ==
    {[i \in 1..n |-> ~(lo <= i /\ i < hi)] : lo \in 1..(n + 1), hi \in 1..(n + 1)}

InitKbd ==
    /\ compositor = [ok |-> FALSE, n |-> 0]
    /\ devices = [card0 |-> FALSE, fb0 |-> FALSE]
    /\ fbData = <<>>
    /\ CaptureIdle
    /\ MouseIdle
    /\ KbdIdle
    /\ LockIdle

\* a call of EvdevInputKeyboard::new
KeyboardNew(created) ==
    /\ LET r == EvdevInputKeyboardNew(created)
       IN  /\ kbdNew' = [called |-> TRUE, ok |-> r.ok]
           /\ keyboard' = r.val
    /\ kbdCall' = NoKbdCall
    /\ kbdEmits' = <<>>
    /\ UNCHANGED <<captureVars, mouseVars, lockVars>>

\* a call of key_down(key)
KeyDown(key) ==
    /\ keyboard.exists
    /\ \E oks \in WriteResults(2) :
          LET r == key_down(key, oks)
          IN  /\ kbdCall' = [op |-> "key_down", key |-> key, text |-> <<>>, ret |-> r.ret]
              /\ kbdEmits' = r.emits
    /\ UNCHANGED <<keyboard, kbdNew, captureVars, mouseVars, lockVars>>

\* a call of key_up(key)
KeyUp(key) ==
    /\ keyboard.exists
    /\ \E oks \in WriteResults(2) :
          LET r == key_up(key, oks)
          IN  /\ kbdCall' = [op |-> "key_up", key |-> key, text |-> <<>>, ret |-> r.ret]
              /\ kbdEmits' = r.emits
    /\ UNCHANGED <<keyboard, kbdNew, captureVars, mouseVars, lockVars>>

\* a call of key_click(key)
KeyClick(key) ==
    /\ keyboard.exists
    /\ \E oks \in WriteResults(4) :
          LET r == key_click(key, oks)
          IN  /\ kbdCall' = [op |-> "key_click", key |-> key, text |-> <<>>, ret |-> r.ret]
              /\ kbdEmits' = r.emits
    /\ UNCHANGED <<keyboard, kbdNew, captureVars, mouseVars, lockVars>>

\* what key_sequence(s) can do, over the results of its 4 * Len(s) writes
KeySequenceRuns ==
    [s \in Texts |-> {key_sequence(s, oks) : oks \in WriteResults(4 * Len(s))}]

\* a call of key_sequence(s)
KeySequence(s) ==
    /\ keyboard.exists
    /\ \E r \in KeySequenceRuns[s] :
          /\ kbdCall' = [op |-> "key_sequence", key |-> NoKey, text |-> s, ret |-> r.ret]
          /\ kbdEmits' = r.emits
    /\ UNCHANGED <<keyboard, kbdNew, captureVars, mouseVars, lockVars>>

NextKbd ==
    \/ \E created \in BOOLEAN : KeyboardNew(created)
    \/ \E key \in Keys : KeyDown(key)
    \/ \E key \in Keys : KeyUp(key)
    \/ \E key \in Keys : KeyClick(key)
    \/ \E s \in Texts : KeySequence(s)

SpecKbd == InitKbd /\ [][NextKbd]_vars

(***************************************************************************)
(* Both virtual devices, single key and button calls                       *)
(***************************************************************************)
InitInput ==
    /\ compositor = [ok |-> FALSE, n |-> 0]
    /\ devices = [card0 |-> FALSE, fb0 |-> FALSE]
    /\ fbData = <<>>
    /\ CaptureIdle
    /\ mouse = EvdevInputMouseNew(MaxCoord, MaxCoord - 1)
    /\ mouseCall = NoMouseCall
    /\ mouseEmits = <<>>
    /\ keyboard = EvdevInputKeyboardNew(TRUE).val
    /\ kbdNew = [called |-> TRUE, ok |-> TRUE]
    /\ kbdCall = NoKbdCall
    /\ kbdEmits = <<>>
    /\ LockIdle

NextInput ==
    \/ \E key \in Keys : KeyDown(key)
    \/ \E key \in Keys : KeyUp(key)
    \/ \E key \in Keys : KeyClick(key)
    \/ \E button \in Buttons : MouseDown(button)
    \/ \E button \in Buttons : MouseUp(button)
    \/ \E button \in Buttons : MouseClick(button)

SpecInput == InitInput /\ [][NextInput]_vars

(***************************************************************************)
(* One virtual device, the calls that press and release                    *)
(***************************************************************************)
\* either the keyboard or the mouse has been constructed
InitRelease ==
    /\ compositor = [ok |-> FALSE, n |-> 0]
    /\ devices = [card0 |-> FALSE, fb0 |-> FALSE]
    /\ fbData = <<>>
    /\ CaptureIdle
    /\ LockIdle
    /\ \/ /\ keyboard = EvdevInputKeyboardNew(TRUE).val
          /\ kbdNew = [called |-> TRUE, ok |-> TRUE]
          /\ kbdCall = NoKbdCall
          /\ kbdEmits = <<>>
          /\ MouseIdle
       \/ /\ mouse = EvdevInputMouseNew(MaxCoord, MaxCoord - 1)
          /\ mouseCall = NoMouseCall
          /\ mouseEmits = <<>>
          /\ KbdIdle

NextRelease ==
    \/ \E key \in Keys : KeyClick(key)
    \/ \E s \in Texts : KeySequence(s)
    \/ \E button \in Buttons : MouseClick(button)

SpecRelease == InitRelease /\ [][NextRelease]_vars

(***************************************************************************)
(* One virtual device, construction and the single-step calls              *)
(***************************************************************************)
\* the keyboard is still to be constructed, or the mouse has been
InitEmit ==
    /\ compositor = [ok |-> FALSE, n |-> 0]
    /\ devices = [card0 |-> FALSE, fb0 |-> FALSE]
    /\ fbData = <<>>
    /\ CaptureIdle
    /\ LockIdle
    /\ KbdIdle
    /\ \/ MouseIdle
       \/ /\ mouse = EvdevInputMouseNew(MaxCoord, MaxCoord - 1)
          /\ mouseCall = NoMouseCall
          /\ mouseEmits = <<>>

NextEmit ==
    \/ \E created \in BOOLEAN : ~mouse.exists /\ KeyboardNew(created)
    \/ \E key \in Keys : KeyDown(key)
    \/ \E key \in Keys : KeyUp(key)
    \/ \E x \in Coords, y \in Coords : MouseMoveTo(x, y)
    \/ \E dx \in Deltas, dy \in Deltas : MouseMoveRelative(dx, dy)
    \/ \E button \in Buttons : MouseDown(button)
    \/ \E button \in Buttons : MouseUp(button)
    \/ \E delta \in Deltas : MouseScrollX(delta)
    \/ \E delta \in Deltas : MouseScrollY(delta)

SpecEmit == InitEmit /\ [][NextEmit]_vars

(***************************************************************************)
(* Threads calling set_map_err and map_err                                 *)
(***************************************************************************)
\* the error texts mapped
ErrTexts == {<<"e1">>, <<"e2">>}
\* the override functions installed
Overrides == Mappers \cup {"other"}

\* a thread outside both functions that has not mapped an error yet
IdleThread == [pc |-> "idle", text |-> <<>>, f |-> "None", seen |-> "None", out |-> NoError]

\* everything but the lock, its threads and the mapper stays as it is
OnlyLock ==
    UNCHANGED <<compositor, devices, fbData, allCall, newCall, capturer, nframes,
                allNone, failedBefore, lastRec, lastConv, lastOut, mouseVars, kbdVars>>

InitLock ==
    /\ compositor = [ok |-> FALSE, n |-> 0]
    /\ devices = [card0 |-> FALSE, fb0 |-> FALSE]
    /\ fbData = <<>>
    /\ CaptureIdle
    /\ MouseIdle
    /\ KbdIdle
    /\ rwlock = [writer |-> FALSE, readers |-> {}]
    /\ threads = [t \in 1..NumThreads |-> IdleThread]

\* map_err(text) on thread t: MAP_ERR.read().unwrap()
MapErrRead(t, text) ==
    /\ threads[t].pc = "idle"
    /\ LET r == RwLockRead(rwlock, t)
       IN  /\ r.ok
           /\ rwlock' = r.lock
    /\ threads' = [threads EXCEPT ![t] = [IdleThread EXCEPT !.pc = "read", !.text = text]]
    /\ UNCHANGED MAP_ERR
    /\ OnlyLock

\* `*guard`: the Option<fn> is copied out through the read guard
MapErrLoad(t) ==
    /\ threads[t].pc = "read"
    /\ threads' = [threads EXCEPT ![t].pc = "apply", ![t].seen = MAP_ERR]
    /\ UNCHANGED <<MAP_ERR, rwlock>>
    /\ OnlyLock

\* the branch of the `if let` taken on the copy
MapErrApply(t) ==
    /\ threads[t].pc = "apply"
    /\ threads' = [threads EXCEPT ![t].pc = "drop",
                                  ![t].out = map_err(threads[t].seen, threads[t].text)]
    /\ UNCHANGED <<MAP_ERR, rwlock>>
    /\ OnlyLock

\* the read guard is dropped at the end of the `if let` and map_err returns
MapErrDrop(t) ==
    /\ threads[t].pc = "drop"
    /\ rwlock' = [rwlock EXCEPT !.readers = @ \ {t}]
    /\ threads' = [threads EXCEPT ![t].pc = "idle"]
    /\ UNCHANGED MAP_ERR
    /\ OnlyLock

\* set_map_err(f) on thread t: MAP_ERR.write().unwrap()
SetMapErrWrite(t, f) ==
    /\ threads[t].pc = "idle"
    /\ LET w == RwLockWrite(rwlock)
       IN  /\ w.ok
           /\ rwlock' = w.lock
    /\ threads' = [threads EXCEPT ![t] = [IdleThread EXCEPT !.pc = "write", !.f = f]]
    /\ UNCHANGED MAP_ERR
    /\ OnlyLock

\* `*guard = Some(f)`
SetMapErrStore(t) ==
    /\ threads[t].pc = "write"
    /\ MAP_ERR' = threads[t].f
    /\ threads' = [threads EXCEPT ![t].pc = "wdrop"]
    /\ UNCHANGED rwlock
    /\ OnlyLock

\* the write guard is dropped and set_map_err returns
SetMapErrDrop(t) ==
    /\ threads[t].pc = "wdrop"
    /\ rwlock' = [rwlock EXCEPT !.writer = FALSE]
    /\ threads' = [threads EXCEPT ![t].pc = "idle"]
    /\ UNCHANGED MAP_ERR
    /\ OnlyLock

NextLock ==
    \E t \in 1..NumThreads :
        \/ \E text \in ErrTexts : MapErrRead(t, text)
        \/ MapErrLoad(t)
        \/ MapErrApply(t)
        \/ MapErrDrop(t)
        \/ \E f \in Overrides : SetMapErrWrite(t, f)
        \/ SetMapErrStore(t)
        \/ SetMapErrDrop(t)

SpecLock == InitLock /\ [][NextLock]_vars

(***************************************************************************)
(* Enumeration                                                             *)
(***************************************************************************)
FallbackOrder == <<"pipewire", "/dev/dri/card0", "/dev/fb0">>

\* an attempt that yielded at least one target
Succeeded(a) == a.ok /\ a.targets # <<>>

\* C1: Display::all attempts the compositor, then /dev/dri/card0, then
\* /dev/fb0, in that order; a backend is attempted only if every earlier one
\* failed or yielded no target; it stops at the first success and returns
\* exactly that backend's targets.  With an empty compositor and a successful
\* mode-setting attempt, the one mode-setting Display is returned and the
\* framebuffer is not attempted.
C1_FallbackOrder ==
    allCall.called =>
        LET as == allCall.attempts
            n  == Len(as)
        IN  /\ n \in 1..3
            /\ \A i \in 1..n : as[i].backend = FallbackOrder[i]
            /\ \A i \in 1..(n - 1) : ~Succeeded(as[i])
            /\ ~Succeeded(as[n]) => n = 3
            /\ Succeeded(as[n]) =>
                  /\ allCall.result.kind = "Ok"
                  /\ allCall.result.displays =
                        [k \in DOMAIN as[n].targets |-> Display(as[n].targets[k])]
            /\ (as[1].ok /\ as[1].targets = <<>> /\ n >= 2 /\ Succeeded(as[2])) =>
                  /\ Len(allCall.result.displays) = 1
                  /\ allCall.result.displays[1].cap.path = "/dev/dri/card0"
                  /\ \A i \in 1..n : as[i].backend # "/dev/fb0"

C1_Witness ==
    /\ allCall.called
    /\ compositor.ok /\ compositor.n = 0
    /\ Len(allCall.attempts) = 2
    /\ allCall.result.displays = <<Display(DrmCapturableNew("/dev/dri/card0").val)>>

\* no capture backend is usable
NoBackendUsable ==
    /\ ~(compositor.ok /\ compositor.n > 0)
    /\ ~devices.card0
    /\ ~devices.fb0

\* C2: Display::all returns Failure exactly when the compositor, the
\* mode-setting device and the framebuffer device have all failed, the Failure
\* then carries the framebuffer attempt's error and reads "no capture method
\* available"; otherwise it returns a non-empty sequence of Displays.
C2_FailureIffAllFailed ==
    allCall.called =>
        /\ (allCall.result.kind = "Failure") <=> NoBackendUsable
        /\ allCall.result.kind = "Failure" =>
              /\ Len(allCall.attempts) = 3
              /\ allCall.result.err.text[1] = "All capture methods failed: "
        /\ allCall.result.kind # "Failure" =>
              /\ allCall.result.kind = "Ok"
              /\ allCall.result.displays # <<>>

\* only the framebuffer backend is available
OnlyFramebufferUsable ==
    /\ ~(compositor.ok /\ compositor.n > 0)
    /\ ~devices.card0
    /\ devices.fb0

\* C3: when only the framebuffer backend is available, Display::all returns
\* exactly one Display and its name identifies /dev/fb0.
C3_FramebufferDisplayNamed ==
    (allCall.called /\ OnlyFramebufferUsable) =>
        /\ allCall.result.kind = "Ok"
        /\ Len(allCall.result.displays) = 1
        /\ DisplayName(allCall.result.displays[1]) = <<"DRM: ", "/dev/fb0">>

(***************************************************************************)
(* Capture                                                                 *)
(***************************************************************************)
\* C4: as long as the recorder never has new data (NONE on every call), every
\* frame() call returns the would-block outcome, never a Failure, for any
\* number of calls and whatever error mapper is installed.
C4_NoDataAlwaysWouldBlock ==
    /\ (capturer.exists /\ nframes >= 1 /\ allNone) =>
          /\ Outcome(lastOut) = "WouldBlock"
          /\ lastOut.err = WouldBlock
    /\ (nframes >= 1 /\ lastRec.kind = "NONE") => Outcome(lastOut) = "WouldBlock"

C4_Witness ==
    /\ capturer.exists
    /\ nframes = MaxFrames
    /\ allNone
    /\ MAP_ERR # "None"
    /\ Outcome(lastOut) = "WouldBlock"

\* C5: a frame() call ends in exactly one outcome fixed by the recorder's
\* result: BGR0 / RGB0 data gives a Frame tagged BGRA / RGBA with the
\* recorder's width and height, NONE gives the retry-later outcome, a recorder
\* error gives Failure with the backend's message, any other layout gives
\* Failure "Invalid data".
C5_FrameOutcomes ==
    nframes >= 1 =>
        /\ Outcome(lastOut) \in {"Frame", "WouldBlock", "Failure"}
        /\ lastRec.kind = "BGR0" =>
              /\ Outcome(lastOut) = "Frame"
              /\ lastOut.frame.pixfmt = "BGRA"
              /\ lastOut.frame.w = lastRec.w /\ lastOut.frame.h = lastRec.h
              /\ lastOut.frame.data = lastRec.x
        /\ lastRec.kind = "RGB0" =>
              /\ Outcome(lastOut) = "Frame"
              /\ lastOut.frame.pixfmt = "RGBA"
              /\ lastOut.frame.w = lastRec.w /\ lastOut.frame.h = lastRec.h
              /\ lastOut.frame.data = lastRec.x
        /\ lastRec.kind = "NONE" => Outcome(lastOut) = "WouldBlock"
        /\ lastRec.kind = "Err" =>
              /\ Outcome(lastOut) = "Failure"
              /\ lastOut.err.text = lastRec.err
        /\ lastRec.kind \notin {"BGR0", "RGB0", "NONE", "Err"} =>
              /\ Outcome(lastOut) = "Failure"
              /\ lastOut.err.text = <<"Invalid data">>

C5_Witness ==
    /\ nframes >= 1
    /\ lastRec.kind = "RGB"
    /\ Outcome(lastOut) = "Failure"
    /\ lastOut.err.text = <<"Invalid data">>

\* C6: a Frame returned by frame() has a buffer of width x height x 4 bytes,
\* and a recorder result of any other length becomes a Failure.
C6_FrameLength ==
    nframes >= 1 =>
        /\ lastOut.ok => Len(lastOut.frame.data) = lastOut.frame.w * lastOut.frame.h * 4
        /\ (lastRec.kind \in {"BGR0", "RGB0"} /\ Len(lastRec.x) # lastRec.w * lastRec.h * 4) =>
              Outcome(lastOut) = "Failure"

\* C7: the framebuffer recorder's conversion gives, for every pixel i,
\* output[4i] = input[4i+2], output[4i+1] = input[4i+1],
\* output[4i+2] = input[4i], output[4i+3] = 0; the output is as long as the
\* input and every pixel is converted exactly once.
C7_ArgbToBgr0 ==
    lastConv.buffer # <<>> =>
        /\ Len(lastConv.out) = Len(lastConv.buffer)
        /\ Len(lastConv.buffer) = FbWidth * FbHeight * 4
        /\ \A i \in 0..(FbWidth * FbHeight - 1) :
              /\ At(lastConv.out, 4 * i) = At(lastConv.buffer, 4 * i + 2)
              /\ At(lastConv.out, 4 * i + 1) = At(lastConv.buffer, 4 * i + 1)
              /\ At(lastConv.out, 4 * i + 2) = At(lastConv.buffer, 4 * i)
              /\ At(lastConv.out, 4 * i + 3) = 0
              /\ At(lastConv.passes, i) = 1

C7_Witness ==
    /\ lastConv.buffer # <<>>
    /\ lastRec.kind = "BGR0"
    /\ \A i \in 0..(FbWidth * FbHeight - 1) :
          /\ At(lastConv.buffer, 4 * i) # At(lastConv.buffer, 4 * i + 2)
          /\ At(lastConv.buffer, 4 * i + 3) # 0

\* the backend has a full frame for the live Capturer
BackendHasFrame ==
    IF capturer.val.recorder.type = "drm"
    THEN devices.fb0 /\ Len(fbData) >= FrameSize
    ELSE lastRec.kind \in {"BGR0", "RGB0"}

\* C8: a Failure is fatal for that frame() call only: a later call on the same
\* Capturer returns a Frame whenever the backend then has a full frame.
C8_FailureNotSticky ==
    (capturer.exists /\ failedBefore /\ BackendHasFrame) => Outcome(lastOut) = "Frame"

\* C9: Capturer::new returns Failure, through the error mapper, exactly when
\* the display's backend cannot create its recorder, and then there is no
\* Capturer; on success the Capturer owns a recorder opened on the device of
\* the Display it was given.
C9_OpenFailureSurfaced ==
    newCall.called =>
        /\ newCall.ok <=> newCall.recorderOk
        /\ ~newCall.ok =>
              /\ ~capturer.exists
              /\ newCall.err.by = (IF newCall.m = "None" THEN "default" ELSE newCall.m)
        /\ newCall.ok =>
              /\ capturer.exists
              /\ capturer.val.display = newCall.display
              /\ capturer.val.recorder.capturable = newCall.display.cap
              /\ capturer.val.recorder.type = "drm" =>
                    capturer.val.recorder.file = newCall.display.cap.path

(***************************************************************************)
(* Pointer                                                                 *)
(***************************************************************************)
\* C10: move_to(x, y) from the tracked position (cx, cy) emits the relative
\* pair (REL_X = x - cx, REL_Y = y - cy) if and only if one of the two deltas
\* is non-zero, and afterwards the tracked position is exactly (x, y), also
\* outside [0, width] x [0, height].
C10_MoveTo ==
    mouseCall.op = "move_to" =>
        LET dx == mouseCall.a - mouseCall.before.current_x
            dy == mouseCall.b - mouseCall.before.current_y
            pair == <<InputEvent("RELATIVE", "REL_X", dx),
                      InputEvent("RELATIVE", "REL_Y", dy)>>
        IN  /\ (dx # 0 \/ dy # 0) <=> (\E k \in DOMAIN mouseEmits : mouseEmits[k].events = pair)
            /\ (dx = 0 /\ dy = 0) => mouseEmits = <<>>
            /\ \A k \in DOMAIN mouseEmits :
                  mouseEmits[k].events # <<SynEvent>> => (k = 1 /\ mouseEmits[k].events = pair)
            /\ mouse.current_x = mouseCall.a
            /\ mouse.current_y = mouseCall.b
            /\ mouse.width = mouseCall.before.width
            /\ mouse.height = mouseCall.before.height

C10_Witness ==
    /\ mouseCall.op = "move_to"
    /\ mouseCall.a > mouse.width
    /\ mouseCall.b < 0
    /\ mouseEmits # <<>>
    /\ mouse.current_x = mouseCall.a
    /\ mouse.current_y = mouseCall.b

\* C11: move_relative(dx, dy) with a non-zero delta emits exactly the pair
\* (dx, dy) and moves the tracked position to
\* (clamp(cx + dx, 0, width), clamp(cy + dy, 0, height)); with dx = dy = 0 it
\* emits nothing and leaves the position where it was.
C11_MoveRelative ==
    mouseCall.op = "move_relative" =>
        LET dx == mouseCall.a
            dy == mouseCall.b
            cx == mouseCall.before.current_x
            cy == mouseCall.before.current_y
            nx == IF cx + dx < 0 THEN 0
                  ELSE IF cx + dx > mouse.width THEN mouse.width ELSE cx + dx
            ny == IF cy + dy < 0 THEN 0
                  ELSE IF cy + dy > mouse.height THEN mouse.height ELSE cy + dy
        IN  IF dx = 0 /\ dy = 0
            THEN /\ mouseEmits = <<>>
                 /\ mouse = mouseCall.before
            ELSE /\ Len(mouseEmits) = 2
                 /\ mouseEmits[1].events = <<InputEvent("RELATIVE", "REL_X", dx),
                                             InputEvent("RELATIVE", "REL_Y", dy)>>
                 /\ mouseEmits[2].events = <<SynEvent>>
                 /\ mouse.current_x = nx
                 /\ mouse.current_y = ny

\* a move_to outside the box followed by a relative move that is clamped on
\* one axis and not on the other
C11_Witness ==
    /\ mouseCall.op = "move_relative"
    /\ mouseCall.a > 0 /\ mouseCall.b < 0
    /\ mouseCall.before.current_x + mouseCall.a > mouse.width
    /\ mouse.current_x = mouse.width
    /\ mouse.current_y = mouseCall.before.current_y + mouseCall.b
    /\ mouseEmits # <<>>

\* C12: button_down, button_up, click, scroll_x and scroll_y leave the tracked
\* position and the bounding width and height as they were, for mapped and
\* unmapped arguments and whether or not the writes succeed; only move_to and
\* move_relative change the tracked position.
C12_PositionFrame ==
    /\ mouseCall.op \in {"down", "up", "click", "scroll_x", "scroll_y"} =>
          /\ mouse.current_x = mouseCall.before.current_x
          /\ mouse.current_y = mouseCall.before.current_y
          /\ mouse.width = mouseCall.before.width
          /\ mouse.height = mouseCall.before.height
    /\ (mouseCall.op # "" /\ (mouse.current_x # mouseCall.before.current_x
                              \/ mouse.current_y # mouseCall.before.current_y)) =>
          mouseCall.op \in {"move_to", "move_relative"}

\* a scroll whose write the kernel rejected, made away from the centre
C12_Witness ==
    /\ mouseCall.op = "scroll_y"
    /\ mouseCall.a # 0
    /\ ~mouseEmits[1].ok
    /\ mouse.current_x < 0
    /\ mouse.current_y = mouseCall.before.current_y

(***************************************************************************)
(* Keyboard                                                                *)
(***************************************************************************)
\* the k-th emit call of the last keyboard call writes one key event
IsKeyEmit(k) ==
    /\ Len(kbdEmits[k].events) = 1
    /\ kbdEmits[k].events[1].type = "KEY"
\* it writes the synchronization event
IsSynEmit(k) == kbdEmits[k].events = <<SynEvent>>

\* C13 as claimed: every key event of key_down, key_up, key_click and
\* key_sequence is followed immediately by a synchronization event, and no
\* synchronization event is emitted without the key event it pairs with.
C13_KeyThenSync ==
    \A k \in DOMAIN kbdEmits :
        /\ IsKeyEmit(k) => (k + 1 \in DOMAIN kbdEmits /\ IsSynEmit(k + 1))
        /\ IsSynEmit(k) => (k - 1 \in DOMAIN kbdEmits /\ IsKeyEmit(k - 1))

\* C13 as amended: every key event written is followed immediately by a
\* synchronization event, except a press the kernel rejected, which is
\* followed by none; every synchronization event written comes immediately
\* after the key event it pairs with.
C13_KeyThenSyncUnlessPressRejected ==
    \A k \in DOMAIN kbdEmits :
        /\ (IsKeyEmit(k) /\ (kbdEmits[k].ok \/ kbdEmits[k].events[1].value = 0)) =>
              (k + 1 \in DOMAIN kbdEmits /\ IsSynEmit(k + 1))
        /\ (IsKeyEmit(k) /\ ~kbdEmits[k].ok /\ kbdEmits[k].events[1].value = 1) =>
              ~(k + 1 \in DOMAIN kbdEmits /\ IsSynEmit(k + 1))
        /\ IsSynEmit(k) => (k - 1 \in DOMAIN kbdEmits /\ IsKeyEmit(k - 1))

\* a text of two mapped characters typed with the first press rejected
C13_Witness ==
    /\ kbdCall.op = "key_sequence"
    /\ Len(kbdCall.text) = 2
    /\ Len(kbdEmits) = 7
    /\ ~kbdEmits[1].ok
    /\ IsKeyEmit(2) /\ IsSynEmit(3)

\* the key has no arm in the key mapping table
KeyAbsent(key) ==
    /\ ~(key.kind = "Layout" /\ key.c \in DOMAIN LayoutTable)
    /\ key.kind \notin DOMAIN NamedTable
\* the button has no arm in the button mapping table
ButtonAbsent(button) == button \notin {"Left", "Right", "Middle", "Back", "Forward"}

\* C14: for a key absent from the key mapping table key_down emits no event
\* and returns success, and key_up and key_click emit nothing; for a button
\* absent from the button mapping table button_down, button_up and click emit
\* nothing; the devices are as they were.
C14_UnmappedNoOp ==
    /\ (kbdCall.op \in {"key_down", "key_up", "key_click"} /\ KeyAbsent(kbdCall.key)) =>
          /\ kbdEmits = <<>>
          /\ kbdCall.op = "key_down" => kbdCall.ret = "Ok"
          /\ keyboard.exists
    /\ (mouseCall.op \in {"down", "up", "click"} /\ ButtonAbsent(mouseCall.button)) =>
          /\ mouseEmits = <<>>
          /\ mouse = mouseCall.before

C14_Witness ==
    /\ kbdCall.op = "key_down"
    /\ kbdCall.key = Layout("A")
    /\ kbdCall.ret = "Ok"
    /\ kbdEmits = <<>>
    /\ mouseCall.op = "click"
    /\ mouseCall.button = "ScrollUp"
    /\ mouseEmits = <<>>

\* the key events of the last keyboard call, in the order they were written
KeyEvents ==
    LET ks == SelectSeq(kbdEmits,
                        LAMBDA e : Len(e.events) = 1 /\ e.events[1].type = "KEY")
    IN  [k \in DOMAIN ks |-> ks[k].events[1]]

\* the characters of the typed text that the table maps
MappedChars == SelectSeq(kbdCall.text, LAMBDA c : c \in DOMAIN LayoutTable)

\* C15: the events of one device are written in call order, none reordered
\* or merged: key_click(k) writes press(k) then release(k); key_sequence(text)
\* clicks the characters in text order, all events of character n before those
\* of character n+1, and when the writes succeed every press is followed by
\* the matching release before the call returns.
C15_CallOrder ==
    /\ (kbdCall.op = "key_click" /\ ~KeyAbsent(kbdCall.key)) =>
          /\ Len(KeyEvents) = 2
          /\ KeyEvents[1].value = 1 /\ KeyEvents[2].value = 0
          /\ KeyEvents[1].code = KeyEvents[2].code
    /\ kbdCall.op = "key_sequence" =>
          /\ Len(KeyEvents) = 2 * Len(MappedChars)
          /\ \A j \in DOMAIN MappedChars :
                /\ KeyEvents[2 * j - 1] = InputEvent("KEY", LayoutTable[MappedChars[j]], 1)
                /\ KeyEvents[2 * j] = InputEvent("KEY", LayoutTable[MappedChars[j]], 0)
          /\ (\A k \in DOMAIN kbdEmits : kbdEmits[k].ok) =>
                /\ Len(kbdEmits) = 4 * Len(MappedChars)
                /\ \A k \in DOMAIN kbdEmits : IsSynEmit(k) <=> k % 2 = 0

\* "ba" typed with every write accepted
C15_Witness ==
    /\ kbdCall.op = "key_sequence"
    /\ kbdCall.text = <<"b", "a">>
    /\ Len(kbdEmits) = 8
    /\ \A k \in DOMAIN kbdEmits : kbdEmits[k].ok

\* the indices of the emit calls of the last keyboard call that write a release
ReleaseEmits ==
    {k \in DOMAIN kbdEmits : IsKeyEmit(k) /\ kbdEmits[k].events[1].value = 0}

\* C16: in key_click, key_sequence and mouse click the release event and its
\* synchronization event are attempted for every mapped key or button
\* whatever the kernel did with the press or its synchronization event, and
\* key_sequence goes on to the remaining characters.
C16_ReleaseAlwaysAttempted ==
    /\ (kbdCall.op = "key_click" /\ ~KeyAbsent(kbdCall.key)) =>
          LET n == Len(kbdEmits)
          IN  /\ n >= 3
              /\ kbdEmits[n - 1].events =
                     <<InputEvent("KEY", map_enigo_key_to_evdev(kbdCall.key).code, 0)>>
              /\ IsSynEmit(n)
              /\ ReleaseEmits = {n - 1}
    /\ kbdCall.op = "key_sequence" =>
          /\ Cardinality(ReleaseEmits) = Len(MappedChars)
          /\ \A k \in ReleaseEmits : k + 1 \in DOMAIN kbdEmits /\ IsSynEmit(k + 1)
          /\ \A j \in DOMAIN MappedChars :
                \E k \in ReleaseEmits :
                    /\ Cardinality({i \in ReleaseEmits : i <= k}) = j
                    /\ kbdEmits[k].events[1].code = LayoutTable[MappedChars[j]]
    /\ (mouseCall.op = "click" /\ ~ButtonAbsent(mouseCall.button)) =>
          /\ Len(mouseEmits) = 4
          /\ mouseEmits[3].events =
                 <<InputEvent("KEY", map_enigo_button_to_evdev(mouseCall.button).code, 0)>>
          /\ mouseEmits[4].events = <<SynEvent>>

\* a click of a mapped key whose press the kernel rejected
C16_Witness ==
    /\ kbdCall.op = "key_click"
    /\ kbdCall.key = Named("LeftShift")
    /\ Len(kbdEmits) = 3
    /\ ~kbdEmits[1].ok
    /\ kbdEmits[2].events = <<InputEvent("KEY", "KEY_LEFTSHIFT", 0)>>

\* C17: key_down on a mapped key returns Failure whenever the kernel rejects
\* its key event write, and then writes no synchronization event; the keyboard
\* constructor returns Failure when the virtual device cannot be created;
\* key_up and the mouse button, move and scroll calls run to their end and
\* return normally even when a write is rejected.
C17_FailurePropagation ==
    /\ (kbdCall.op = "key_down" /\ ~KeyAbsent(kbdCall.key)) =>
          /\ kbdEmits # <<>>
          /\ ~kbdEmits[1].ok => (kbdCall.ret = "Err" /\ Len(kbdEmits) = 1)
          /\ kbdCall.ret = "Ok" => \A k \in DOMAIN kbdEmits : kbdEmits[k].ok
    /\ (kbdNew.called /\ ~keyboard.exists) => ~kbdNew.ok
    /\ kbdCall.op = "key_up" =>
          /\ kbdCall.ret = "unit"
          /\ ~KeyAbsent(kbdCall.key) => Len(kbdEmits) = 2
    /\ (mouseCall.op \in {"down", "up"} /\ ~ButtonAbsent(mouseCall.button)) =>
          (Len(mouseEmits) = 2 /\ mouse = mouseCall.before)
    /\ mouseCall.op \in {"scroll_x", "scroll_y"} =>
          (Len(mouseEmits) = 2 /\ mouse = mouseCall.before)
    /\ (mouseCall.op \in {"move_to", "move_relative"} /\ mouseEmits # <<>>) =>
          /\ Len(mouseEmits) = 2
          /\ mouseCall.op = "move_to" =>
                (mouse.current_x = mouseCall.a /\ mouse.current_y = mouseCall.b)
          /\ mouseCall.op = "move_relative" =>
                /\ mouse.current_x =
                       clamp(mouseCall.before.current_x + mouseCall.a, 0, mouse.width)
                /\ mouse.current_y =
                       clamp(mouseCall.before.current_y + mouseCall.b, 0, mouse.height)

\* key_down("a") with its key event write rejected
C17_Witness ==
    /\ kbdCall.op = "key_down"
    /\ kbdCall.key = Layout("a")
    /\ kbdCall.ret = "Err"
    /\ kbdEmits = <<Emit(<<InputEvent("KEY", "KEY_A", 1)>>, FALSE)>>

\* the batch the last mouse call writes first, and for a click the one it
\* writes third
MouseBatches ==
    LET c    == mouseCall
        code == map_enigo_button_to_evdev(c.button).code
    IN  CASE c.op = "move_to" ->
               <<<<InputEvent("RELATIVE", "REL_X", c.a - c.before.current_x),
                   InputEvent("RELATIVE", "REL_Y", c.b - c.before.current_y)>>>>
          [] c.op = "move_relative" ->
               <<<<InputEvent("RELATIVE", "REL_X", c.a),
                   InputEvent("RELATIVE", "REL_Y", c.b)>>>>
          [] c.op = "down"     -> <<<<InputEvent("KEY", code, 1)>>>>
          [] c.op = "up"       -> <<<<InputEvent("KEY", code, 0)>>>>
          [] c.op = "click"    -> <<<<InputEvent("KEY", code, 1)>>, <<InputEvent("KEY", code, 0)>>>>
          [] c.op = "scroll_x" -> <<<<InputEvent("RELATIVE", "REL_HWHEEL", c.a)>>>>
          [] c.op = "scroll_y" -> <<<<InputEvent("RELATIVE", "REL_WHEEL", c.a)>>>>
          [] OTHER             -> <<>>

\* C18: in the stream the virtual mouse writes, a movement is one batch of
\* the REL_X event then the REL_Y event followed by exactly one
\* synchronization event; a button event and a scroll event are each a batch
\* of that one event followed by its own synchronization event; a call writes
\* only its own batches, in order.
C18_MouseBatches ==
    mouseEmits # <<>> =>
        /\ Len(mouseEmits) = 2 * Len(MouseBatches)
        /\ \A j \in DOMAIN MouseBatches :
              /\ mouseEmits[2 * j - 1].events = MouseBatches[j]
              /\ mouseEmits[2 * j].events = <<SynEvent>>
        /\ mouseCall.op \in {"move_to", "move_relative"} =>
              /\ Len(mouseEmits[1].events) = 2
              /\ mouseEmits[1].events[1].code = "REL_X"
              /\ mouseEmits[1].events[2].code = "REL_Y"
        /\ mouseCall.op \notin {"move_to", "move_relative"} =>
              \A k \in DOMAIN mouseEmits : Len(mouseEmits[k].events) = 1

\* a diagonal relative move written as one batch and a synchronization event
C18_Witness ==
    /\ mouseCall.op = "move_relative"
    /\ mouseEmits = <<Emit(<<InputEvent("RELATIVE", "REL_X", 1),
                             InputEvent("RELATIVE", "REL_Y", 0 - 1)>>, TRUE),
                      Emit(<<SynEvent>>, TRUE)>>

\* the threads inside map_err, holding a read guard
Readers == {t \in DOMAIN threads : threads[t].pc \in {"read", "apply", "drop"}}
\* the threads inside set_map_err, holding the write guard
Writers == {t \in DOMAIN threads : threads[t].pc \in {"write", "wdrop"}}

\* C19: an error is mapped by the default mapping (an io::Error of kind Other
\* wrapping the text) if no override is installed at that moment, and else by
\* the installed override applied to the text. Under every interleaving of
\* set_map_err and map_err a writer excludes the readers and the other
\* writers, and each reader uses the mapper that was in place before a write
\* or the one in place after it, never a mixture of the two.
C19_MapperUnderLock ==
    /\ rwlock.readers = Readers
    /\ rwlock.writer <=> Writers # {}
    /\ Cardinality(Writers) <= 1
    /\ Writers # {} => Readers = {}
    /\ \A t \in DOMAIN threads :
          LET th == threads[t]
          IN  /\ th.pc \in {"apply", "drop"} => th.seen = MAP_ERR
              /\ th.pc = "drop" =>
                    th.out = IF MAP_ERR = "None"
                             THEN [ioKind |-> "Other", by |-> "default", text |-> th.text]
                             ELSE [ioKind |-> "Mapped", by |-> MAP_ERR, text |-> th.text]
              /\ (th.pc = "idle" /\ th.out # NoError) =>
                    /\ th.out.text = th.text
                    /\ \/ th.seen = "None" /\ th.out.ioKind = "Other" /\ th.out.by = "default"
                       \/ th.seen \in Overrides /\ th.out.ioKind = "Mapped" /\ th.out.by = th.seen

\* two readers hold the lock at once after an override was installed over
\* another, and one of them has mapped its error with it
C19_Witness ==
    /\ Cardinality(rwlock.readers) = 2
    /\ MAP_ERR = "other"
    /\ \E t \in DOMAIN threads :
          /\ threads[t].pc = "drop"
          /\ threads[t].out = [ioKind |-> "Mapped", by |-> "other", text |-> <<"e2">>]

\* the attempts of the last Display::all that did not succeed and were
\* followed by the next backend
FailedAttempts ==
    {k \in DOMAIN allCall.attempts :
        ~Succeeded(allCall.attempts[k]) /\ k + 1 \in DOMAIN allCall.attempts}

\* C20 as claimed: every attempt of Display::all that fails, by an error or
\* by yielding zero targets, is reported on stderr before the next backend is
\* attempted, one line per failed attempt and none for an attempt that
\* succeeded.
C20_FailedAttemptsReported ==
    allCall.called => Len(allCall.log) = Cardinality(FailedAttempts)

\* C21 as claimed: the outcome of a DrmRecorder capture does not depend on
\* how many captures preceded it: while /dev/fb0 holds exactly
\* width * height * 4 bytes, every frame() call on the framebuffer recorder
\* succeeds with the full frame read from the start of the device.
C21_CaptureIndependentOfHistory ==
    [][(/\ nframes' = nframes + 1
        /\ capturer.val.recorder.type = "drm"
        /\ Len(fbData) = FrameSize)
       => (/\ lastRec'.kind = "BGR0"
           /\ lastConv'.buffer = fbData
           /\ Outcome(lastOut') = "Frame")]_vars

\* the REL_X (axis 1) or REL_Y (axis 2) delta the last mouse call wrote
EmittedDelta(axis) ==
    IF mouseEmits = <<>> THEN 0 ELSE mouseEmits[1].events[axis].value

\* C22 as claimed: after any sequence of move_to and move_relative calls whose
\* writes all succeed the tracked position is (width/2, height/2) plus the sum
\* of the deltas written.  The sum is carried call by call: the position
\* starts at the centre, and each move call leaves it at the position before
\* the call plus the deltas the call wrote, which holds after every sequence
\* exactly when the claim does.
C22_PositionIsSumOfDeltas ==
    /\ (mouse.exists /\ mouseCall = NoMouseCall) =>
          /\ mouse.current_x = mouse.width \div 2
          /\ mouse.current_y = mouse.height \div 2
    /\ (/\ mouseCall.op \in {"move_to", "move_relative"}
        /\ \A k \in DOMAIN mouseEmits : mouseEmits[k].ok) =>
          /\ mouse.current_x = mouseCall.before.current_x + EmittedDelta(1)
          /\ mouse.current_y = mouseCall.before.current_y + EmittedDelta(2)

====
